---- MODULE Spec2Model ----
(***************************************************************************)
(* Model of ParallelDownloader (src/core/downloader.py): one engine, one   *)
(* run of download_tickers over a request list.  download_tickers builds   *)
(* one coroutine object per request and awaits them one after the other;   *)
(* each coroutine (download_ticker) enters the semaphore, runs its retry   *)
(* loop and returns a table or None; download_tickers then writes the      *)
(* table and appends the request to successful or failed.                  *)
(* The fetch client (yf.Ticker(...).history), the file writer (to_csv,     *)
(* to_parquet, to_json) and mkdir are the environment: each call returns   *)
(* or raises, chosen nondeterministically.                                 *)
(***************************************************************************)
EXTENDS Integers, Sequences, FiniteSets, TLC

\* ---- bounds of the model ------------------------------------------------
MaxLen == 2            \* longest request list
MaxConcurrent == 2     \* largest max_concurrent
MaxRetry == 3          \* largest retry_attempts
MaxDelay == 2          \* largest retry_delay (whole seconds)
MaxStr == 3            \* longest request string (characters)
MaxDays == 2           \* largest --days
MaxRuns == 2           \* calls of download_tickers on one engine

Tickers == {"AAPL", "MSFT"}
None == "None"

\* values the constructor accepts (no validation in __init__; the
\* Semaphore constructor itself only rejects a negative value)
ConcurrencyValues == 0..MaxConcurrent
RetryValues == -1..MaxRetry
DelayValues == 1..MaxDelay
OutputFormats == {"csv", "parquet", "json", "xml"}

\* behaviours of the collaborators
ClientOutcomes == {"data", "empty", "raise"}
WriterOutcomes == {"ok", "raise"}

RequestLists == UNION {[1..n -> Tickers] : n \in 0..MaxLen}

VARIABLES
    max_concurrent,   \* self.max_concurrent
    retry_attempts,   \* self.retry_attempts
    retry_delay,      \* self.retry_delay
    semaphore,        \* free slots of self.semaphore
    tickers,          \* argument of download_tickers
    output_format,    \* argument of download_tickers
    pc,               \* position of download_tickers
    idx,              \* position of the "for ... in tasks" loop (1-based)
    taskPc,           \* position of each download_ticker coroutine
    attempt,          \* loop variable of each coroutine
    result,           \* value returned by each coroutine
    holds,            \* coroutines inside "async with self.semaphore"
    calls,            \* per request: outcomes of its stock.history calls
    sleeps,           \* per request: arguments of its asyncio.sleep calls
    written,          \* per request: outcome of the file write
    successful,       \* list "successful"
    failed,           \* list "failed"
    appended,         \* per request: the list its loop iteration appended to
    report,           \* the returned dictionary
    raisedExc,        \* exception that left download_tickers
    engine,           \* outcome of ParallelDownloader(...): the object or the error
    timeout,          \* self.timeout
    session,          \* the aiohttp.ClientSession of the run
    fetchTimeouts,    \* per request: timeout each stock.history call ran under
    completed,        \* requests in the order their coroutines ended
    mkdirResult,      \* outcome of the mkdir of download_tickers
    request,          \* one element of tickers, character by character
    period,           \* argument of download_tickers
    start_date,       \* argument of download_tickers
    end_date,         \* argument of download_tickers
    auto_adjust,      \* argument of download_tickers
    filename,         \* the file name built for request, piece by piece
    cliPc,            \* position of the CLI command "download"
    ticker_list,      \* download(): ticker_list
    days,             \* download(): --days
    add_indicators,   \* download(): --add-indicators
    validate,         \* download(): --validate
    argv,             \* --start-date and --end-date as given on the command line
    results,          \* download(): results of download_sync
    enginePaths,      \* files the engine wrote, one per successful ticker
    postPaths,        \* files the post-processing step names, in the same order
    exitCode,         \* exit status of the command
    run               \* number of the current call of download_tickers (0: none yet)

vars == <<max_concurrent, retry_attempts, retry_delay, semaphore, tickers,
          output_format, pc, idx, taskPc, attempt, result, holds, calls,
          sleeps, written, successful, failed, appended, report, raisedExc,
          engine, timeout, session, fetchTimeouts, completed, mkdirResult,
          request, period, start_date, end_date, auto_adjust, filename,
          cliPc, ticker_list, days, add_indicators, validate, argv, results,
          enginePaths, postPaths, exitCode, run>>

\* the CLI command
cliVars == <<cliPc, ticker_list, days, add_indicators, validate, argv, results,
             enginePaths, postPaths, exitCode>>

\* naming of one output file
nameVars == <<request, period, start_date, end_date, auto_adjust, filename>>

\* one run of download_tickers
runVars == <<pc, idx, taskPc, attempt, result, holds, calls, sleeps, written,
             successful, failed, appended, report, raisedExc, session,
             fetchTimeouts, completed, mkdirResult, run>>

config == <<max_concurrent, retry_attempts, retry_delay, tickers, output_format,
            engine, timeout, nameVars, cliVars, run>>

Tasks == 1..Len(tickers)

NoReport == [total |-> -1, successful |-> -1, failed |-> -1,
             successful_tickers |-> <<>>, failed_tickers |-> <<>>]

\* timeout: int = 30
DefaultTimeout == 30

\* no session yet: aiohttp.ClientSession is entered only after mkdir
NoSession == [limit |-> -1, total |-> -1]

\* stock.history(...) is called without a timeout argument: the call runs
\* under the client library's own default, whatever self.timeout is
HistoryTimeout == [passed |-> FALSE, seconds |-> 0]

\* no file name is being built
NamesIdle ==
    /\ request = <<>>
    /\ period = None
    /\ start_date = "2023-01-01"
    /\ end_date = "2023-06-01"
    /\ auto_adjust = TRUE
    /\ filename = <<>>

NoResults == [successful_tickers |-> <<>>, failed_tickers |-> <<>>]

\* the engine is used through its API, not from the command line
CliIdle ==
    /\ cliPc = "none"
    /\ ticker_list = <<>>
    /\ days = 0
    /\ add_indicators = FALSE
    /\ validate = FALSE
    /\ argv = [start |-> None, end |-> None]
    /\ results = NoResults
    /\ enginePaths = <<>>
    /\ postPaths = <<>>
    /\ exitCode = 0

\* ---- construction and call ----------------------------------------------
Init ==
    /\ max_concurrent \in ConcurrencyValues
    /\ retry_attempts \in RetryValues
    /\ retry_delay \in DelayValues
    /\ semaphore = max_concurrent
    /\ tickers \in RequestLists
    /\ output_format \in OutputFormats
    /\ pc = "mkdir"
    /\ idx = 1
    /\ taskPc = [i \in Tasks |-> "none"]
    /\ attempt = [i \in Tasks |-> 0]
    /\ result = [i \in Tasks |-> "unset"]
    /\ holds = {}
    /\ calls = [i \in Tasks |-> <<>>]
    /\ sleeps = [i \in Tasks |-> <<>>]
    /\ written = [i \in Tasks |-> "no"]
    /\ successful = <<>>
    /\ failed = <<>>
    /\ appended = [i \in Tasks |-> "pending"]
    /\ report = NoReport
    /\ raisedExc = None
    /\ engine = "constructed"
    /\ timeout = DefaultTimeout
    /\ session = NoSession
    /\ fetchTimeouts = [i \in Tasks |-> <<>>]
    /\ completed = <<>>
    /\ mkdirResult = "none"
    /\ run = 1
    /\ NamesIdle
    /\ CliIdle

\* ---- download_tickers, before the loop ----------------------------------
\* variant: a failed mkdir is swallowed and the run goes on
MakeOutputDir_Swallowed ==
    /\ pc = "mkdir"
    /\ \E ok \in BOOLEAN :
         IF ok THEN pc' = "create" /\ raisedExc' = raisedExc /\ mkdirResult' = "ok"
               ELSE pc' = "create" /\ raisedExc' = raisedExc /\ mkdirResult' = "raise"
    /\ UNCHANGED <<config, semaphore, idx, taskPc, attempt, result, holds,
                   calls, sleeps, written, successful, failed, appended, report,
                   session, fetchTimeouts, completed>>

\* Path(output_dir).mkdir(parents=True, exist_ok=True)
MakeOutputDir ==
    /\ pc = "mkdir"
    /\ \E ok \in BOOLEAN :
         IF ok THEN pc' = "create" /\ raisedExc' = raisedExc /\ mkdirResult' = "ok"
               ELSE pc' = "raised" /\ raisedExc' = "OSError" /\ mkdirResult' = "raise"
    /\ UNCHANGED <<config, semaphore, idx, taskPc, attempt, result, holds,
                   calls, sleeps, written, successful, failed, appended, report,
                   session, fetchTimeouts, completed>>

\* tasks = [...]: one coroutine object per request, none of them started
CreateTasks ==
    /\ pc = "create"
    /\ taskPc' = [i \in Tasks |-> "created"]
    /\ pc' = "loop"
    /\ idx' = 1
    /\ successful' = <<>>
    /\ failed' = <<>>
    /\ UNCHANGED <<config, semaphore, attempt, result, holds, calls, sleeps,
                   written, appended, report, raisedExc>>
    /\ session' = [limit |-> max_concurrent, total |-> timeout]
    /\ UNCHANGED <<fetchTimeouts, completed, mkdirResult>>

\* ---- download_ticker ----------------------------------------------------
\* a coroutine object runs only while download_tickers awaits it
Awaited(i) == pc = "loop" /\ i = idx

\* data = await task: the coroutine starts and reaches the semaphore
AwaitTask(i) ==
    /\ Awaited(i)
    /\ taskPc[i] = "created"
    /\ taskPc' = [taskPc EXCEPT ![i] = "acquire"]
    /\ UNCHANGED <<config, semaphore, pc, idx, attempt, result, holds, calls,
                   sleeps, written, successful, failed, appended, report, raisedExc>>
    /\ UNCHANGED <<session, fetchTimeouts, completed, mkdirResult>>

\* variant: acquire never waits
SlotFree_NeverWaits == TRUE

\* variant: acquire waits while a single slot is left
SlotFree_OffByOne == semaphore > 1

\* Semaphore.acquire: proceeds only when a slot is free
SlotFree == semaphore > 0

\* async with self.semaphore: (entry)
Acquire(i) ==
    /\ Awaited(i)
    /\ taskPc[i] = "acquire"
    /\ SlotFree
    /\ semaphore' = semaphore - 1
    /\ holds' = holds \cup {i}
    /\ attempt' = [attempt EXCEPT ![i] = 0]
    /\ taskPc' = [taskPc EXCEPT ![i] = "attempt"]
    /\ UNCHANGED <<config, pc, idx, result, calls, sleeps, written,
                   successful, failed, appended, report, raisedExc>>
    /\ UNCHANGED <<session, fetchTimeouts, completed, mkdirResult>>

\* variant: the body runs once before the bound is tested
InRange_AtLeastOnce(a) == a = 0 \/ a < retry_attempts

\* variant: range(self.retry_attempts - 1)
InRange_OneShort(a) == a < retry_attempts - 1

\* for attempt in range(self.retry_attempts)
InRange(a) == a < retry_attempts

\* the for loop ends without a return: the coroutine returns None
LoopExhausted(i) ==
    /\ Awaited(i)
    /\ taskPc[i] = "attempt"
    /\ ~InRange(attempt[i])
    /\ result' = [result EXCEPT ![i] = None]
    /\ taskPc' = [taskPc EXCEPT ![i] = "exit"]
    /\ UNCHANGED <<config, semaphore, pc, idx, attempt, holds, calls, sleeps,
                   written, successful, failed, appended, report, raisedExc>>
    /\ UNCHANGED <<session, fetchTimeouts, completed, mkdirResult>>

\* variant: the same delay before every retry
BackoffDelay_Constant(a) == retry_delay

\* self.retry_delay * (2 ** attempt)
BackoffDelay(a) == retry_delay * (2 ^ a)

\* if attempt < self.retry_attempts - 1
AttemptsRemain(a) == a < retry_attempts - 1

\* variant: the slot is given back for the length of the backoff sleep
OnException_ReleasesSlot(i) ==
    IF AttemptsRemain(attempt[i])
    THEN /\ sleeps' = [sleeps EXCEPT ![i] = Append(@, BackoffDelay(attempt[i]))]
         /\ taskPc' = [taskPc EXCEPT ![i] = "sleep"]
         /\ semaphore' = semaphore + 1
         /\ holds' = holds \ {i}
         /\ UNCHANGED result
    ELSE /\ result' = [result EXCEPT ![i] = None]
         /\ taskPc' = [taskPc EXCEPT ![i] = "exit"]
         /\ UNCHANGED <<sleeps, semaphore, holds>>

\* except Exception: sleep and go round again, or give up with None
OnException(i) ==
    IF AttemptsRemain(attempt[i])
    THEN /\ sleeps' = [sleeps EXCEPT ![i] = Append(@, BackoffDelay(attempt[i]))]
         /\ taskPc' = [taskPc EXCEPT ![i] = "sleep"]
         /\ UNCHANGED <<result, semaphore, holds>>
    ELSE /\ result' = [result EXCEPT ![i] = None]
         /\ taskPc' = [taskPc EXCEPT ![i] = "exit"]
         /\ UNCHANGED <<sleeps, semaphore, holds>>

\* variant: an empty table is handled like a client error
OnEmpty_Retried(i) ==
    IF AttemptsRemain(attempt[i])
    THEN /\ sleeps' = [sleeps EXCEPT ![i] = Append(@, BackoffDelay(attempt[i]))]
         /\ taskPc' = [taskPc EXCEPT ![i] = "sleep"]
         /\ UNCHANGED <<result, semaphore, holds>>
    ELSE /\ result' = [result EXCEPT ![i] = None]
         /\ taskPc' = [taskPc EXCEPT ![i] = "exit"]
         /\ UNCHANGED <<sleeps, semaphore, holds>>

\* if data.empty: return None
OnEmpty(i) ==
    /\ result' = [result EXCEPT ![i] = None]
    /\ taskPc' = [taskPc EXCEPT ![i] = "exit"]
    /\ UNCHANGED <<sleeps, semaphore, holds>>

\* variant: the emptiness test is inverted, a non-empty table returns None
OnData_TreatedAsEmpty(i) ==
    /\ result' = [result EXCEPT ![i] = None]
    /\ taskPc' = [taskPc EXCEPT ![i] = "exit"]
    /\ UNCHANGED <<sleeps, semaphore, holds>>

\* non-empty table: normalise and return data
OnData(i) ==
    /\ result' = [result EXCEPT ![i] = "data"]
    /\ taskPc' = [taskPc EXCEPT ![i] = "exit"]
    /\ UNCHANGED <<sleeps, semaphore, holds>>

\* one pass of the try block: stock.history(...) and what follows it
Fetch(i) ==
    /\ Awaited(i)
    /\ taskPc[i] = "attempt"
    /\ InRange(attempt[i])
    /\ \E o \in ClientOutcomes :
         /\ calls' = [calls EXCEPT ![i] = Append(@, o)]
         /\ CASE o = "data" -> OnData(i)
              [] o = "empty" -> OnEmpty(i)
              [] o = "raise" -> OnException(i)
    /\ UNCHANGED <<config, pc, idx, attempt, written, successful, failed,
                   appended, report, raisedExc>>
    /\ fetchTimeouts' = [fetchTimeouts EXCEPT ![i] = Append(@, HistoryTimeout)]
    /\ UNCHANGED <<session, completed, mkdirResult>>

\* asyncio.sleep returns: next value of the loop variable
WakeUp(i) ==
    /\ Awaited(i)
    /\ taskPc[i] = "sleep"
    /\ attempt' = [attempt EXCEPT ![i] = @ + 1]
    /\ taskPc' = [taskPc EXCEPT ![i] = "attempt"]
    /\ UNCHANGED <<config, semaphore, pc, idx, result, holds, calls, sleeps,
                   written, successful, failed, appended, report, raisedExc>>
    /\ UNCHANGED <<session, fetchTimeouts, completed, mkdirResult>>

\* variant: the exit of the with block does not give the slot back
Release_KeepsSlot(i) ==
    /\ Awaited(i)
    /\ taskPc[i] = "exit"
    /\ semaphore' = semaphore
    /\ holds' = holds \ {i}
    /\ taskPc' = [taskPc EXCEPT ![i] = "done"]
    /\ UNCHANGED <<config, pc, idx, attempt, result, calls, sleeps, written,
                   successful, failed, appended, report, raisedExc>>
    /\ completed' = Append(completed, i)
    /\ UNCHANGED <<session, fetchTimeouts, mkdirResult>>

\* async with self.semaphore: (exit), then the coroutine ends
Release(i) ==
    /\ Awaited(i)
    /\ taskPc[i] = "exit"
    /\ semaphore' = semaphore + 1
    /\ holds' = holds \ {i}
    /\ taskPc' = [taskPc EXCEPT ![i] = "done"]
    /\ UNCHANGED <<config, pc, idx, attempt, result, calls, sleeps, written,
                   successful, failed, appended, report, raisedExc>>
    /\ completed' = Append(completed, i)
    /\ UNCHANGED <<session, fetchTimeouts, mkdirResult>>

\* ---- download_tickers, the loop over tasks ------------------------------
\* the if/elif chain on output_format writes for these values only
WritesFile(fmt) == fmt \in {"csv", "parquet", "json"}

\* variant: if ticker not in successful: successful.append(ticker)
RecordSuccess_Dedup(i, w) ==
    /\ written' = [written EXCEPT ![i] = w]
    /\ successful' = IF \E k \in 1..Len(successful) : successful[k] = tickers[i]
                     THEN successful
                     ELSE Append(successful, tickers[i])
    /\ failed' = failed
    /\ appended' = [appended EXCEPT ![i] = "successful"]
    /\ pc' = pc
    /\ idx' = idx + 1
    /\ raisedExc' = raisedExc

\* variant: successful.insert(0, ticker)
RecordSuccess_Prepends(i, w) ==
    /\ written' = [written EXCEPT ![i] = w]
    /\ successful' = <<tickers[i]>> \o successful
    /\ failed' = failed
    /\ appended' = [appended EXCEPT ![i] = "successful"]
    /\ pc' = pc
    /\ idx' = idx + 1
    /\ raisedExc' = raisedExc

\* the write returned (or no branch of the chain matched): successful.append
RecordSuccess(i, w) ==
    /\ written' = [written EXCEPT ![i] = w]
    /\ successful' = Append(successful, tickers[i])
    /\ failed' = failed
    /\ appended' = [appended EXCEPT ![i] = "successful"]
    /\ pc' = pc
    /\ idx' = idx + 1
    /\ raisedExc' = raisedExc

\* variant: successful.append runs before the write, failed.append after it
RecordWriteError_BothLists(i) ==
    /\ written' = [written EXCEPT ![i] = "raise"]
    /\ successful' = Append(successful, tickers[i])
    /\ failed' = Append(failed, tickers[i])
    /\ appended' = [appended EXCEPT ![i] = "failed"]
    /\ pc' = pc
    /\ idx' = idx + 1
    /\ raisedExc' = raisedExc

\* variant: the write error is swallowed next to the write, the append follows
RecordWriteError_StillSuccessful(i) ==
    /\ written' = [written EXCEPT ![i] = "raise"]
    /\ successful' = Append(successful, tickers[i])
    /\ failed' = failed
    /\ appended' = [appended EXCEPT ![i] = "successful"]
    /\ pc' = pc
    /\ idx' = idx + 1
    /\ raisedExc' = raisedExc

\* variant: no except clause, the write error leaves download_tickers
RecordWriteError_Propagates(i) ==
    /\ written' = [written EXCEPT ![i] = "raise"]
    /\ successful' = successful
    /\ failed' = failed
    /\ appended' = appended
    /\ pc' = "raised"
    /\ idx' = idx
    /\ raisedExc' = "WriteError"

\* except Exception around the await and the write: failed.append
RecordWriteError(i) ==
    /\ written' = [written EXCEPT ![i] = "raise"]
    /\ successful' = successful
    /\ failed' = Append(failed, tickers[i])
    /\ appended' = [appended EXCEPT ![i] = "failed"]
    /\ pc' = pc
    /\ idx' = idx + 1
    /\ raisedExc' = raisedExc

\* variant: the else branch appends nothing
RecordNoData_Dropped(i) ==
    /\ written' = written
    /\ successful' = successful
    /\ failed' = failed
    /\ appended' = appended
    /\ pc' = pc
    /\ idx' = idx + 1
    /\ raisedExc' = raisedExc

\* else: failed.append (the coroutine returned None)
RecordNoData(i) ==
    /\ written' = written
    /\ successful' = successful
    /\ failed' = Append(failed, tickers[i])
    /\ appended' = [appended EXCEPT ![i] = "failed"]
    /\ pc' = pc
    /\ idx' = idx + 1
    /\ raisedExc' = raisedExc

\* if data is not None and not data.empty
HasData(r) == r # None

\* body of the loop after "data = await task"
ProcessResult(i) ==
    /\ Awaited(i)
    /\ taskPc[i] = "done"
    /\ IF HasData(result[i])
       THEN IF WritesFile(output_format)
            THEN \E w \in WriterOutcomes :
                   IF w = "ok" THEN RecordSuccess(i, "ok") ELSE RecordWriteError(i)
            ELSE RecordSuccess(i, "no")
       ELSE RecordNoData(i)
    /\ UNCHANGED <<config, semaphore, taskPc, attempt, result, holds, calls,
                   sleeps, report>>
    /\ UNCHANGED <<session, fetchTimeouts, completed, mkdirResult>>

\* return {...}
Return ==
    /\ pc = "loop"
    /\ idx > Len(tickers)
    /\ report' = [total |-> Len(tickers),
                  successful |-> Len(successful),
                  failed |-> Len(failed),
                  successful_tickers |-> successful,
                  failed_tickers |-> failed]
    /\ pc' = "returned"
    /\ UNCHANGED <<config, semaphore, idx, taskPc, attempt, result, holds,
                   calls, sleeps, written, successful, failed, appended, raisedExc>>
    /\ UNCHANGED <<session, fetchTimeouts, completed, mkdirResult>>

Next ==
    \/ MakeOutputDir
    \/ CreateTasks
    \/ \E i \in Tasks : AwaitTask(i)
    \/ \E i \in Tasks : Acquire(i)
    \/ \E i \in Tasks : LoopExhausted(i)
    \/ \E i \in Tasks : Fetch(i)
    \/ \E i \in Tasks : WakeUp(i)
    \/ \E i \in Tasks : Release(i)
    \/ \E i \in Tasks : ProcessResult(i)
    \/ Return

Spec == Init /\ [][Next]_vars

\* ---- a second call on the same engine ----------------------------------
\* the gate does not depend on the length of the backoff or on the format
\* of the file: one delay and one format are enough here
RerunInit ==
    /\ Init
    /\ retry_delay = 1
    /\ output_format = "csv"

\* download_tickers is called again, with the same arguments, after the
\* previous call has returned or raised: its locals are fresh, the engine's
\* fields (the semaphore among them) are those the previous call left
CallAgain ==
    /\ pc \in {"returned", "raised"}
    /\ run < MaxRuns
    /\ run' = run + 1
    /\ pc' = "mkdir"
    /\ idx' = 1
    /\ taskPc' = [i \in Tasks |-> "none"]
    /\ attempt' = [i \in Tasks |-> 0]
    /\ result' = [i \in Tasks |-> "unset"]
    /\ holds' = {}
    /\ calls' = [i \in Tasks |-> <<>>]
    /\ sleeps' = [i \in Tasks |-> <<>>]
    /\ written' = [i \in Tasks |-> "no"]
    /\ successful' = <<>>
    /\ failed' = <<>>
    /\ appended' = [i \in Tasks |-> "pending"]
    /\ report' = NoReport
    /\ raisedExc' = None
    /\ session' = NoSession
    /\ fetchTimeouts' = [i \in Tasks |-> <<>>]
    /\ completed' = <<>>
    /\ mkdirResult' = "none"
    /\ UNCHANGED <<max_concurrent, retry_attempts, retry_delay, tickers,
                   output_format, engine, timeout, nameVars, cliVars, semaphore>>

RerunNext ==
    \/ Next
    \/ CallAgain

RerunSpec == RerunInit /\ [][RerunNext]_vars

\* the event loop runs a coroutine that can take a step; the collaborators'
\* calls return or raise (each is one step of Fetch, ProcessResult, MakeOutputDir)
FairSpec == Spec /\ WF_vars(Next)

\* ---- ParallelDownloader(...) ---------------------------------------------
\* arguments a caller can pass to the constructor
CtorConcurrency == -1..MaxConcurrent
CtorRetry == -1..MaxRetry
CtorDelay == -1..MaxDelay
CtorTimeout == {-1, 0, DefaultTimeout}

\* asyncio.Semaphore(value) raises ValueError for a negative value only
SemaphoreAccepts(v) == v >= 0

\* download_tickers has not been called
RunIdle ==
    /\ pc = "mkdir"
    /\ idx = 1
    /\ taskPc = <<>>
    /\ attempt = <<>>
    /\ result = <<>>
    /\ holds = {}
    /\ calls = <<>>
    /\ sleeps = <<>>
    /\ written = <<>>
    /\ successful = <<>>
    /\ failed = <<>>
    /\ appended = <<>>
    /\ report = NoReport
    /\ raisedExc = None
    /\ session = NoSession
    /\ fetchTimeouts = <<>>
    /\ completed = <<>>
    /\ mkdirResult = "none"
    /\ run = 0

\* the call of the constructor, its arguments chosen, its body not yet run
CtorInit ==
    /\ max_concurrent \in CtorConcurrency
    /\ retry_attempts \in CtorRetry
    /\ retry_delay \in CtorDelay
    /\ timeout \in CtorTimeout
    /\ engine = "calling"
    /\ semaphore = 0
    /\ tickers = <<>>
    /\ output_format = "csv"
    /\ RunIdle
    /\ NamesIdle
    /\ CliIdle

\* __init__: the four fields are stored as given, then the semaphore is built
Construct ==
    /\ engine = "calling"
    /\ IF SemaphoreAccepts(max_concurrent)
       THEN engine' = "constructed" /\ semaphore' = max_concurrent
       ELSE engine' = "ValueError" /\ semaphore' = semaphore
    /\ UNCHANGED <<max_concurrent, retry_attempts, retry_delay, timeout, tickers,
                   output_format, runVars, nameVars, cliVars>>

CtorNext == Construct

CtorSpec == CtorInit /\ [][CtorNext]_vars

\* ---- the name of an output file ------------------------------------------
\* a request string is a sequence of characters: a letter of a symbol or of a
\* display name, the comma between them, white space
RequestChars == {"A", "B", ",", " "}
RequestStrings == UNION {[1..n -> RequestChars] : n \in 0..MaxStr}
Periods == {None, "", "1y", "max"}
StartDates == {"2023-01-01"}
EndDates == {"2023-01-01", "2023-06-01"}

\* ',' in ticker
HasComma(t) == \E k \in 1..Len(t) : t[k] = ","

\* ticker.split(',')[0]
BeforeFirstComma(t) ==
    IF HasComma(t)
    THEN LET k == CHOOSE j \in 1..Len(t) :
                      t[j] = "," /\ \A h \in 1..(j - 1) : t[h] # ","
         IN SubSeq(t, 1, k - 1)
    ELSE t

RECURSIVE LStrip(_)
LStrip(t) == IF t # <<>> /\ Head(t) = " " THEN LStrip(Tail(t)) ELSE t

RECURSIVE RStrip(_)
RStrip(t) == IF t # <<>> /\ t[Len(t)] = " " THEN RStrip(SubSeq(t, 1, Len(t) - 1)) ELSE t

\* str.strip()
Strip(t) == RStrip(LStrip(t))

\* variant: the whole request string goes into the file name
TickerSymbol_WholeRequest(t) == t

\* ticker_symbol = ticker.split(',')[0].strip() if ',' in ticker else ticker
TickerSymbol(t) == IF HasComma(t) THEN Strip(BeforeFirstComma(t)) ELSE t

\* adjustment_suffix = "adj" if auto_adjust else "raw"
AdjustmentSuffix(adj) == IF adj THEN "adj" ELSE "raw"

\* if period: (None and the empty string are false)
Truthy(x) == x # None /\ x # ""

\* the two f-strings of download_tickers
FileName(sym, per, start, end, adj, fmt) ==
    IF Truthy(per)
    THEN sym \o <<"_", per, "_", AdjustmentSuffix(adj), ".", fmt>>
    ELSE sym \o <<"_", start, "_", end, "_", AdjustmentSuffix(adj), ".", fmt>>

\* an engine that is not running, for the checks of the naming alone
EngineIdle ==
    /\ max_concurrent = 1
    /\ retry_attempts = 1
    /\ retry_delay = 1
    /\ timeout = DefaultTimeout
    /\ engine = "constructed"
    /\ semaphore = 1
    /\ tickers = <<>>
    /\ RunIdle

NameInit ==
    /\ EngineIdle
    /\ request \in RequestStrings
    /\ period \in Periods
    /\ start_date \in StartDates
    /\ end_date \in EndDates
    /\ auto_adjust \in BOOLEAN
    /\ output_format \in OutputFormats
    /\ filename = <<>>
    /\ CliIdle

\* filename = f"..." for one request whose table is about to be written
NameFile ==
    /\ filename = <<>>
    /\ filename' = FileName(TickerSymbol(request), period, start_date, end_date,
                            auto_adjust, output_format)
    /\ UNCHANGED <<max_concurrent, retry_attempts, retry_delay, timeout, engine,
                   semaphore, tickers, output_format, runVars, request, period,
                   start_date, end_date, auto_adjust, cliVars>>

NameNext == NameFile

NameSpec == NameInit /\ [][NameNext]_vars

\* ---- the CLI command "download" (src/cli/main.py) ------------------------
\* calendar days, numbered, with the text strftime("%Y-%m-%d") gives each
PaddedText == <<"2023-01-01", "2023-01-02", "2023-01-03",
                "2023-01-04", "2023-01-05", "2023-01-06">>
\* the same days written without the leading zeros
UnpaddedText == <<"2023-1-1", "2023-1-2", "2023-1-3",
                  "2023-1-4", "2023-1-5", "2023-1-6">>

\* datetime.now(), as a day number
Today == 4

\* values of --start-date / --end-date: absent, empty, not a date, a day
\* that does not exist, a day without leading zeros, two well-formed days
CliDateOptions == {None, "", "junk", "2023-02-30", "2023-1-2",
                   "2023-01-01", "2023-01-05"}
CliDays == -1..MaxDays
CliFormats == {"csv", "parquet", "json"}
CliConcurrency == {-1, 0, 2}
CliSymbols == {<<"A">>, <<"B">>}
CliTickerLists == UNION {[1..n -> CliSymbols] : n \in 0..MaxLen}

ValueError == -1

\* datetime.strptime(date_str, "%Y-%m-%d"): the day number, or ValueError;
\* the directives %m and %d also match a single digit
ParseDate(text) ==
    IF \E k \in 1..Len(PaddedText) : PaddedText[k] = text
    THEN CHOOSE k \in 1..Len(PaddedText) : PaddedText[k] = text
    ELSE IF \E k \in 1..Len(UnpaddedText) : UnpaddedText[k] = text
         THEN CHOOSE k \in 1..Len(UnpaddedText) : UnpaddedText[k] = text
         ELSE ValueError

\* utils.validate_date_format
ValidateDateFormat(text) == ParseDate(text) # ValueError

\* utils.validate_date_range
ValidateDateRange(s, e) ==
    /\ ParseDate(s) # ValueError
    /\ ParseDate(e) # ValueError
    /\ ParseDate(s) <= ParseDate(e)

\* utils.get_default_date_range
GetDefaultDateRange(d) == <<PaddedText[Today - d], PaddedText[Today]>>

\* list(set(ticker_list)): the distinct elements, in some order
Deduplicated(l) ==
    LET S == {l[k] : k \in 1..Len(l)}
    IN {q \in [1..Cardinality(S) -> S] : {q[k] : k \in 1..Cardinality(S)} = S}

\* the elements of l at the positions of keep, in the order of l
RECURSIVE Kept(_, _, _)
Kept(l, keep, k) ==
    IF k > Len(l) THEN <<>>
    ELSE (IF k \in keep THEN <<l[k]>> ELSE <<>>) \o Kept(l, keep, k + 1)

\* filename = f"{ticker}_{start_date}_{end_date}.{output_format}"
CliFileName(t, start, end, fmt) == t \o <<"_", start, "_", end, ".", fmt>>

CliInit ==
    /\ max_concurrent \in CliConcurrency
    /\ retry_attempts = 3
    /\ retry_delay = 1
    /\ timeout = DefaultTimeout
    /\ engine = "none"
    /\ semaphore = 0
    /\ tickers = <<>>
    /\ RunIdle
    /\ request = <<>>
    /\ period = None
    /\ auto_adjust = TRUE
    /\ filename = <<>>
    /\ start_date \in CliDateOptions
    /\ end_date \in CliDateOptions
    /\ output_format \in CliFormats
    /\ cliPc = "tickers"
    /\ ticker_list \in CliTickerLists
    /\ days \in CliDays
    /\ add_indicators \in BOOLEAN
    /\ validate \in BOOLEAN
    /\ argv = [start |-> start_date, end |-> end_date]
    /\ results = NoResults
    /\ enginePaths = <<>>
    /\ postPaths = <<>>
    /\ exitCode = 0

\* what no step of the command changes
cliFixed == <<retry_attempts, retry_delay, timeout, tickers, runVars, request,
              period, auto_adjust, filename, output_format, days, add_indicators,
              validate, argv, max_concurrent>>

\* sys.exit(1)
Exit1 == cliPc' = "exit" /\ exitCode' = 1

\* if not ticker_list: exit; ticker_list = list(set(ticker_list))
CheckTickers ==
    /\ cliPc = "tickers"
    /\ IF ticker_list = <<>>
       THEN Exit1 /\ ticker_list' = ticker_list
       ELSE /\ ticker_list' \in Deduplicated(ticker_list)
            /\ cliPc' = "start"
            /\ exitCode' = exitCode
    /\ UNCHANGED <<cliFixed, engine, semaphore, start_date, end_date, results,
                   enginePaths, postPaths>>

\* if start_date and not validate_date_format(start_date): exit
CheckStartDate ==
    /\ cliPc = "start"
    /\ IF Truthy(start_date) /\ ~ValidateDateFormat(start_date)
       THEN Exit1
       ELSE cliPc' = "end" /\ exitCode' = exitCode
    /\ UNCHANGED <<cliFixed, engine, semaphore, start_date, end_date, ticker_list,
                   results, enginePaths, postPaths>>

\* if end_date and not validate_date_format(end_date): exit
CheckEndDate ==
    /\ cliPc = "end"
    /\ IF Truthy(end_date) /\ ~ValidateDateFormat(end_date)
       THEN Exit1
       ELSE cliPc' = "range" /\ exitCode' = exitCode
    /\ UNCHANGED <<cliFixed, engine, semaphore, start_date, end_date, ticker_list,
                   results, enginePaths, postPaths>>

\* if start_date and end_date and not validate_date_range(...): exit
CheckDateRange ==
    /\ cliPc = "range"
    /\ IF Truthy(start_date) /\ Truthy(end_date)
          /\ ~ValidateDateRange(start_date, end_date)
       THEN Exit1
       ELSE cliPc' = "defaults" /\ exitCode' = exitCode
    /\ UNCHANGED <<cliFixed, engine, semaphore, start_date, end_date, ticker_list,
                   results, enginePaths, postPaths>>

\* if not start_date or not end_date: fill from get_default_date_range(days)
FillDefaults ==
    /\ cliPc = "defaults"
    /\ IF ~Truthy(start_date) \/ ~Truthy(end_date)
       THEN /\ start_date' = (IF Truthy(start_date) THEN start_date
                                                   ELSE GetDefaultDateRange(days)[1])
            /\ end_date' = (IF Truthy(end_date) THEN end_date
                                               ELSE GetDefaultDateRange(days)[2])
       ELSE UNCHANGED <<start_date, end_date>>
    /\ cliPc' = "mkdir"
    /\ UNCHANGED <<cliFixed, engine, semaphore, ticker_list, results, enginePaths,
                   postPaths, exitCode>>

\* if not create_directory(output_dir): exit
CreateDirectory ==
    /\ cliPc = "mkdir"
    /\ \E ok \in BOOLEAN :
         IF ok THEN cliPc' = "estimate" /\ exitCode' = exitCode ELSE Exit1
    /\ UNCHANGED <<cliFixed, engine, semaphore, start_date, end_date, ticker_list,
                   results, enginePaths, postPaths>>

\* estimate_download_time(len(ticker_list), max_concurrent=concurrency):
\* num_tickers / max_concurrent raises ZeroDivisionError for --concurrency 0
EstimateTime ==
    /\ cliPc = "estimate"
    /\ IF Len(ticker_list) > max_concurrent /\ max_concurrent = 0
       THEN cliPc' = "crashed" /\ exitCode' = 1
       ELSE cliPc' = "construct" /\ exitCode' = exitCode
    /\ UNCHANGED <<cliFixed, engine, semaphore, start_date, end_date, ticker_list,
                   results, enginePaths, postPaths>>

\* downloader = ParallelDownloader(max_concurrent=concurrency, ...)
ConstructEngine ==
    /\ cliPc = "construct"
    /\ IF SemaphoreAccepts(max_concurrent)
       THEN /\ engine' = "constructed"
            /\ semaphore' = max_concurrent
            /\ cliPc' = "download"
            /\ exitCode' = exitCode
       ELSE /\ engine' = "ValueError"
            /\ semaphore' = semaphore
            /\ cliPc' = "crashed"
            /\ exitCode' = 1
    /\ UNCHANGED <<cliFixed, start_date, end_date, ticker_list, results,
                   enginePaths, postPaths>>

\* results = downloader.download_sync(tickers=ticker_list, start_date, end_date,
\* output_dir, output_format): period and auto_adjust keep their defaults;
\* each ticker succeeds or fails, a successful one has its file written
DownloadSync ==
    /\ cliPc = "download"
    /\ \E keep \in SUBSET (1..Len(ticker_list)) :
         /\ results' = [successful_tickers |-> Kept(ticker_list, keep, 1),
                        failed_tickers |->
                            Kept(ticker_list, (1..Len(ticker_list)) \ keep, 1)]
         /\ enginePaths' =
                [k \in 1..Cardinality(keep) |->
                    FileName(TickerSymbol(Kept(ticker_list, keep, 1)[k]), period,
                             start_date, end_date, auto_adjust, output_format)]
    /\ cliPc' = "post"
    /\ UNCHANGED <<cliFixed, engine, semaphore, start_date, end_date, ticker_list,
                   postPaths, exitCode>>

\* if add_indicators or validate: for ticker in results['successful_tickers']:
\* the path is built, then pd.read_csv is reached (pd is not imported in
\* main.py; the except clause logs the error and the loop goes on)
PostProcess ==
    /\ cliPc = "post"
    /\ IF add_indicators \/ validate
       THEN postPaths' = [k \in 1..Len(results.successful_tickers) |->
                            CliFileName(results.successful_tickers[k], start_date,
                                        end_date, output_format)]
       ELSE postPaths' = postPaths
    /\ cliPc' = "done"
    /\ UNCHANGED <<cliFixed, engine, semaphore, start_date, end_date, ticker_list,
                   results, enginePaths, exitCode>>

CliNext ==
    \/ CheckTickers
    \/ CheckStartDate
    \/ CheckEndDate
    \/ CheckDateRange
    \/ FillDefaults
    \/ CreateDirectory
    \/ EstimateTime
    \/ ConstructEngine
    \/ DownloadSync
    \/ PostProcess

CliSpec == CliInit /\ [][CliNext]_vars

\* ---- vocabulary of the properties ---------------------------------------
Count(s, t) == Cardinality({k \in 1..Len(s) : s[k] = t})
Requested == {tickers[i] : i \in Tasks}
AllRaise(i) == \A k \in 1..Len(calls[i]) : calls[i][k] = "raise"
Finished(i) == taskPc[i] = "done"
Recorded(i) == appended[i] # "pending"
InProgress == {i \in Tasks : taskPc[i] \in {"attempt", "sleep", "exit"}}
Listed(t) == Count(report.successful_tickers, t) + Count(report.failed_tickers, t)

\* C1: in the returned report successful + failed == total, and total is the
\* length of the request list, whatever the client and the writer did.
C1_CountsAddUp ==
    pc = "returned" =>
        /\ report.successful + report.failed = report.total
        /\ report.total = Len(tickers)

C1_Witness ==
    /\ pc = "returned"
    /\ report.successful >= 1
    /\ report.failed >= 1
    /\ \E i \in Tasks : written[i] = "raise"

\* C2 as stated: every ticker of the input is listed exactly once over the
\* two lists of the returned report (in one list only, never twice).
C2_ListedExactlyOnce ==
    pc = "returned" => \A t \in Requested : Listed(t) = 1

\* C2 as amended: no ticker of the input is missing from the returned lists,
\* and a ticker given once in the input is listed exactly once, in one list.
C2_ListedOncePerRequest ==
    pc = "returned" =>
        \A t \in Requested :
            /\ Listed(t) >= 1
            /\ Count(tickers, t) = 1 => Listed(t) = 1

C2_Witness ==
    /\ pc = "returned"
    /\ Len(tickers) = 2
    /\ tickers[1] # tickers[2]
    /\ written[1] = "raise"
    /\ report.failed_tickers = <<tickers[1]>>
    /\ report.successful_tickers = <<tickers[2]>>

\* C3: at every instant the number of requests in progress (inside the
\* semaphore: attempting, sleeping in backoff, or about to leave) is at most
\* max_concurrent.
C3_AtMostMaxConcurrent == Cardinality(InProgress) <= max_concurrent

C3_Witness ==
    \E i \in Tasks :
        /\ taskPc[i] = "sleep"
        /\ Cardinality(InProgress) = max_concurrent

\* C4: a request takes one slot before its first fetch call and keeps it
\* until its retry sequence has ended: the slot is taken once, before any
\* call, it is held in every attempt and every backoff sleep, and it is
\* given back only after the last attempt.
C4_SlotHeldThroughRetries ==
    [][\A i \in Tasks :
          /\ (i \in holds' /\ i \notin holds) =>
                 (calls[i] = <<>> /\ semaphore' = semaphore - 1)
          /\ (i \in holds /\ i \notin holds') => taskPc[i] = "exit"
          /\ taskPc'[i] \in {"attempt", "sleep", "exit"} => i \in holds']_vars

C4_Witness ==
    \E i \in Tasks :
        /\ taskPc[i] = "attempt"
        /\ attempt[i] >= 1
        /\ Len(sleeps[i]) >= 1
        /\ i \in holds

\* C5: a request whose fetch calls all raise is fetched exactly
\* retry_attempts times (never more), and is then recorded as failed.
C5_ExhaustsRetryAttempts ==
    \A i \in Tasks :
        (retry_attempts >= 0 /\ AllRaise(i)) =>
            /\ Len(calls[i]) <= retry_attempts
            /\ Finished(i) => Len(calls[i]) = retry_attempts
            /\ Recorded(i) => (appended[i] = "failed" /\ Count(failed, tickers[i]) >= 1)

C5_Witness ==
    \E i \in Tasks :
        /\ retry_attempts >= 2
        /\ AllRaise(i)
        /\ Len(calls[i]) = retry_attempts
        /\ appended[i] = "failed"

\* C6: the k-th backoff sleep of a request lasts retry_delay * 2^(k-1); a
\* request whose calls all raise sleeps retry_attempts - 1 times, and no
\* sleep follows the final attempt of any request.
C6_BackoffSequence ==
    \A i \in Tasks :
        /\ \A k \in 1..Len(sleeps[i]) : sleeps[i][k] = retry_delay * (2 ^ (k - 1))
        /\ Len(sleeps[i]) <= Len(calls[i])
        /\ (Finished(i) /\ Len(calls[i]) >= 1) => Len(sleeps[i]) = Len(calls[i]) - 1
        /\ (Finished(i) /\ AllRaise(i) /\ retry_attempts >= 1) =>
               Len(sleeps[i]) = retry_attempts - 1

C6_Witness ==
    \E i \in Tasks :
        /\ Finished(i)
        /\ AllRaise(i)
        /\ Len(sleeps[i]) >= 2
        /\ sleeps[i][2] = 2 * retry_delay

\* C7: a request whose first fetch call returns an empty table makes no
\* other call and no backoff sleep, returns None and is recorded as failed.
C7_EmptyIsNotRetried ==
    \A i \in Tasks :
        (Len(calls[i]) >= 1 /\ calls[i][1] = "empty") =>
            /\ calls[i] = <<"empty">>
            /\ sleeps[i] = <<>>
            /\ taskPc[i] \in {"exit", "done"}
            /\ result[i] = None
            /\ Recorded(i) => appended[i] = "failed"

C7_Witness ==
    \E i \in Tasks :
        /\ retry_attempts >= 2
        /\ calls[i] = <<"empty">>
        /\ appended[i] = "failed"

\* C8: a fetch call that returns a non-empty table is the last call of its
\* request, it is one of the first retry_attempts calls and all calls before
\* it raised; the request is recorded as successful unless the write raises.
\* When every request's only call returns a table and no write raises, the
\* returned successful_tickers is the whole request list.
C8_SuccessEndsRetries ==
    /\ \A i \in Tasks : \A k \in 1..Len(calls[i]) :
           calls[i][k] = "data" =>
               /\ k = Len(calls[i])
               /\ k <= retry_attempts
               /\ \A j \in 1..(k - 1) : calls[i][j] = "raise"
               /\ result[i] = "data"
               /\ taskPc[i] \in {"exit", "done"}
               /\ (Recorded(i) /\ written[i] # "raise") =>
                      (appended[i] = "successful" /\ Count(successful, tickers[i]) >= 1)
    /\ (/\ pc = "returned"
        /\ \A i \in Tasks : calls[i] = <<"data">> /\ written[i] # "raise")
           => (report.successful = report.total /\ report.failed_tickers = <<>>
               /\ \A t \in Requested : Count(report.successful_tickers, t) = Count(tickers, t))

C8_Witness ==
    /\ pc = "returned"
    /\ \E i \in Tasks :
        /\ Len(calls[i]) >= 3
        /\ calls[i][Len(calls[i])] = "data"
        /\ written[i] = "ok"
        /\ appended[i] = "successful"

\* C9: when the write of a fetched table raises, the request is recorded as
\* failed and not as successful, and no fetch call is made for it afterwards.
C9_WriteFailureDemotes ==
    [][\A i \in Tasks :
          /\ written'[i] = "raise" =>
                 /\ appended'[i] = "failed"
                 /\ Len(successful') + Len(failed') = idx' - 1
                 /\ Count(failed', tickers[i]) >= 1
          /\ written[i] = "raise" => calls'[i] = calls[i]]_vars

C9_Witness ==
    \E i \in Tasks :
        /\ written[i] = "raise"
        /\ appended[i] = "failed"
        /\ i < Len(tickers)
        /\ Len(calls[i + 1]) >= 1

\* C10: no client or write exception of a request leaves download_tickers;
\* the only exception that does is mkdir's, before any request is started;
\* and a report is returned only when every request has its own outcome.
C10_TickerFailuresAreCaptured ==
    /\ raisedExc \notin {"ClientError", "WriteError"}
    /\ pc = "raised" => (raisedExc = "OSError" /\ \A i \in Tasks : taskPc[i] = "none")
    /\ pc = "returned" => \A i \in Tasks : Finished(i) /\ Recorded(i)

C10_Witness ==
    /\ pc = "returned"
    /\ Len(tickers) = 2
    /\ AllRaise(1) /\ Len(calls[1]) >= 1 /\ appended[1] = "failed"
    /\ written[2] = "raise" /\ appended[2] = "failed"

\* C11: no engine object exists with a zero or negative max_concurrent,
\* retry_attempts, retry_delay or timeout: the constructor rejects them.
C11_NonPositiveRejected ==
    engine = "constructed" =>
        /\ max_concurrent > 0
        /\ retry_attempts > 0
        /\ retry_delay > 0
        /\ timeout > 0

\* what the loop "for ... in tasks: data = await task" gives instead: a
\* request is in progress only when every request before it has ended
OneAtATime ==
    /\ Cardinality(InProgress) <= 1
    /\ \A i \in InProgress : \A j \in 1..(i - 1) : taskPc[j] = "done"

\* C12: the requests are downloaded in parallel: with max_concurrent >= 2 and
\* two requests, the second request's first fetch call starts before the
\* first request's retry sequence has ended, whenever that sequence gives
\* the event loop the chance (it was suspended in a backoff sleep).
C12_SecondStartsBeforeFirstEnds ==
    (/\ max_concurrent >= 2
     /\ Len(tickers) >= 2
     /\ Len(sleeps[1]) >= 1
     /\ taskPc[1] \in {"exit", "done"})
        => Len(calls[2]) >= 1

\* C13: every fetch call runs under the timeout given at construction (a
\* call that lasts longer is ended and counts as a failed attempt).
C13_ConfiguredTimeoutApplied ==
    \A i \in Tasks : \A k \in 1..Len(fetchTimeouts[i]) :
        /\ fetchTimeouts[i][k].passed
        /\ fetchTimeouts[i][k].seconds = timeout

\* C14 as stated: with positive max_concurrent and retry_attempts,
\* download_tickers eventually returns its report.
C14_AlwaysReturnsReport ==
    (max_concurrent > 0 /\ retry_attempts > 0) => <>(pc = "returned")

\* C14 as amended: with positive max_concurrent and retry_attempts, once the
\* output directory has been created every request eventually has its outcome
\* and download_tickers returns its report, and every request that waits for
\* a slot eventually holds one.
C14_ReturnsOnceDirectoryExists ==
    /\ (max_concurrent > 0 /\ retry_attempts > 0 /\ pc = "create")
           ~> (pc = "returned" /\ \A i \in Tasks : Finished(i) /\ Recorded(i))
    /\ \A i \in 1..MaxLen :
           (i \in Tasks /\ taskPc[i] = "acquire" /\ max_concurrent > 0 /\ retry_attempts > 0)
               ~> (i \in holds)

C14_Witness ==
    /\ pc = "returned"
    /\ max_concurrent = 1
    /\ retry_attempts > 0
    /\ Len(tickers) = 2
    /\ Len(sleeps[2]) >= 1
    /\ \A i \in Tasks : Recorded(i)

\* the tickers of the requests of q, in the order of q
NamesOf(q) == [k \in 1..Len(q) |-> tickers[q[k]]]

\* C15: successful_tickers and failed_tickers list their requests in the
\* order in which the requests' tasks completed.
C15_ListsInCompletionOrder ==
    LET InSuccessful(i) == appended[i] = "successful"
        InFailed(i) == appended[i] = "failed"
    IN /\ successful = NamesOf(SelectSeq(completed, InSuccessful))
       /\ failed = NamesOf(SelectSeq(completed, InFailed))
       /\ pc = "returned" =>
              /\ report.successful_tickers = NamesOf(SelectSeq(completed, InSuccessful))
              /\ report.failed_tickers = NamesOf(SelectSeq(completed, InFailed))

C15_Witness ==
    /\ pc = "returned"
    /\ Len(tickers) = 2
    /\ tickers[1] # tickers[2]
    /\ completed = <<1, 2>>
    /\ report.successful_tickers = <<tickers[1], tickers[2]>>
    /\ Len(sleeps[1]) >= 1

\* C16: requests are neither deduplicated nor dropped: every request gets
\* one task and one entry, so the two returned lists together hold each
\* ticker as many times as the request list does.
C16_OutcomesArePermutation ==
    /\ Len(successful) + Len(failed) = Cardinality({i \in Tasks : Recorded(i)})
    /\ \A i \in Tasks : Recorded(i) => (Finished(i) /\ Count(completed, i) = 1)
    /\ pc = "returned" =>
           /\ \A t \in Tickers : Listed(t) = Count(tickers, t)
           /\ Len(completed) = Len(tickers)

C16_Witness ==
    /\ pc = "returned"
    /\ Len(tickers) = 2
    /\ tickers[1] = tickers[2]
    /\ report.successful_tickers = tickers
    /\ Len(calls[1]) >= 1 /\ Len(calls[2]) >= 1

\* the name the claims describe, from a symbol and the arguments of the call
ExpectedName(sym) ==
    IF period \in {"1y", "max"}
    THEN sym \o <<"_", period, "_", IF auto_adjust THEN "adj" ELSE "raw", ".", output_format>>
    ELSE sym \o <<"_", start_date, "_", end_date, "_",
                  IF auto_adjust THEN "adj" ELSE "raw", ".", output_format>>

\* position of the first comma of the request, or one past its end
CommaAt == IF \E k \in 1..Len(request) : request[k] = ","
           THEN CHOOSE k \in 1..Len(request) :
                    request[k] = "," /\ \A h \in 1..(k - 1) : request[h] # ","
           ELSE Len(request) + 1

\* C17 as stated: the file is named {symbol}_{period}_{adj|raw}.{ext} with a
\* named period and {symbol}_{start}_{end}_{adj|raw}.{ext} without, where
\* symbol is the part of the request string before its first comma.
C17_NameFromPartBeforeComma ==
    filename # <<>> => filename = ExpectedName(SubSeq(request, 1, CommaAt - 1))

\* C17 as amended: the same two patterns, where symbol is the request string
\* itself when it has no comma, and otherwise the part before the first
\* comma without its leading and trailing white space.
C17_NameFromStrippedSymbol ==
    filename # <<>> =>
        \E a \in 1..(Len(request) + 1) : \E b \in 0..Len(request) :
            LET part == SubSeq(request, 1, CommaAt - 1)
                sym == SubSeq(request, a, b)
            IN /\ filename = ExpectedName(sym)
               /\ \A k \in a..b : request[k] # ","
               /\ CommaAt > Len(request) => sym = request
               /\ CommaAt <= Len(request) =>
                      /\ b < CommaAt
                      /\ \A k \in 1..(CommaAt - 1) : (k < a \/ k > b) => request[k] = " "
                      /\ sym # <<>> => (sym[1] # " " /\ sym[Len(sym)] # " ")
                      /\ sym = <<>> => \A k \in 1..Len(part) : part[k] = " "

C17_Witness ==
    /\ request = <<"A", " ", ",">>
    /\ period = None
    /\ auto_adjust
    /\ output_format = "csv"
    /\ filename = <<"A", "_", "2023-01-01", "_", "2023-06-01", "_", "adj", ".", "csv">>

\* C18: with --add-indicators or --validate, the path the post-processing
\* step reads and rewrites for a successful ticker is the path at which the
\* engine wrote that ticker's table.
C18_PostProcessingReadsEngineFile ==
    \A k \in 1..Len(postPaths) : postPaths[k] = enginePaths[k]

\* C19: when the output directory cannot be created, download_tickers ends
\* with the mkdir error raised to its caller and no report, no fetch call has
\* been made and no ticker has been recorded in either list.
C19_MkdirFailureIsFatal ==
    mkdirResult = "raise" =>
        /\ pc = "raised"
        /\ raisedExc = "OSError"
        /\ report = NoReport
        /\ \A i \in Tasks : /\ calls[i] = <<>>
                            /\ fetchTimeouts[i] = <<>>
                            /\ appended[i] = "pending"
        /\ successful = <<>>
        /\ failed = <<>>

C19_Witness ==
    /\ mkdirResult = "raise"
    /\ pc = "raised"
    /\ Len(tickers) = MaxLen

IsIsoDate(text) == \E k \in 1..Len(PaddedText) : PaddedText[k] = text

\* C20: when no ticker resolves, or when --start-date or --end-date is given
\* and is not a valid YYYY-MM-DD date, the command does not construct the
\* engine and does not start a download, and it exits with a non-zero status.
C20_BadArgumentsExit ==
    (\/ ticker_list = <<>>
     \/ (argv.start # None /\ ~IsIsoDate(argv.start))
     \/ (argv.end # None /\ ~IsIsoDate(argv.end)))
        => /\ engine # "constructed"
           /\ cliPc \notin {"download", "post", "done"}
           /\ cliPc = "exit" => exitCode # 0

\* C21: a request recorded in successful_tickers had its table written to
\* its output file during the run, whatever output_format was passed.
C21_SuccessfulMeansWritten ==
    \A i \in Tasks : appended[i] = "successful" => written[i] = "ok"

\* C22: the number of free slots stays between 0 and max_concurrent and is
\* max_concurrent minus the slots held; a coroutine that has ended holds no
\* slot, whatever its exit path; when download_tickers returns the gate is
\* full again, and a later call on the same engine starts with a full gate.
C22_GateRestored ==
    /\ semaphore \in 0..max_concurrent
    /\ semaphore + Cardinality(holds) = max_concurrent
    /\ \A i \in Tasks : taskPc[i] = "done" => i \notin holds
    /\ pc \in {"returned", "raised"} => semaphore = max_concurrent
    /\ (run > 1 /\ pc = "mkdir") => semaphore = max_concurrent

\* the second call holds the only slot, after a first call that has returned
C22_Witness ==
    /\ run = 2
    /\ max_concurrent = 1
    /\ pc = "loop"
    /\ holds # {}
    /\ retry_attempts = 0

\* C23: at the call of download_sync, and from then on, the start date
\* handed to the engine is not later than the end date (stated here for a
\* --days that is not negative; the claim makes no such restriction).
C23_StartNotAfterEnd ==
    (cliPc \in {"download", "post", "done"} /\ days >= 0)
        => ParseDate(start_date) <= ParseDate(end_date)

\* C24: an engine with retry_attempts = 0 exists; none of its requests makes
\* a fetch call or sleeps; each coroutine that has ended took and gave back
\* its slot and returned no data; no request is recorded as successful, and
\* the report lists every request as failed with successful = 0.
C24_ZeroAttemptsFailsAll ==
    retry_attempts = 0 =>
        /\ engine = "constructed"
        /\ \A i \in Tasks :
              /\ calls[i] = <<>>
              /\ sleeps[i] = <<>>
              /\ appended[i] # "successful"
              /\ taskPc[i] = "done" =>
                    /\ result[i] = None
                    /\ i \notin holds
                    /\ \E k \in 1..Len(completed) : completed[k] = i
        /\ successful = <<>>
        /\ pc = "returned" =>
              /\ report.successful = 0
              /\ report.failed = Len(tickers)
              /\ report.failed_tickers = tickers
              /\ semaphore = max_concurrent

C24_Witness ==
    /\ retry_attempts = 0
    /\ pc = "returned"
    /\ Len(tickers) = MaxLen
    /\ report.failed = MaxLen
    /\ Len(completed) = MaxLen

====
